---- MODULE Spec2Model ----
(***************************************************************************)
(* burncloud-database: the Database facade over an sqlx SQLite pool.       *)
(* Model of src/src/database.rs: default path resolution, directory        *)
(* provisioning, the facade's life cycle (new / initialize / close) and    *)
(* the query surface, over a small model of the filesystem and of the      *)
(* embedded engine.                                                        *)
(***************************************************************************)
EXTENDS Integers, Sequences, FiniteSets, TLC

\* ------------------------------------------------------------- bounds
\* Facade slots: the variables of callers that may each hold one Database.
MaxFacades == 2
\* Pools that may be opened during one behaviour.
MaxPools == 2
\* Primary keys of the one modelled table are 1..MaxKey.
MaxKey == 2

\* Operations submitted to one pool; more than the pool has connections.
MaxOps == 11

Facades == 1..MaxFacades
Keys == 1..MaxKey
Vals == {"x"}

VARIABLES
    os,           \* cfg!(target_os): "windows" or "other"
    userprofile,  \* what std::env::var("USERPROFILE") returns
    home,         \* what dirs::home_dir() returns
    fs,           \* the directories that exist (paths)
    fsWritable,   \* whether std::fs::create_dir_all may create directories
    store,        \* database files: path -> NoFile or the engine's state of it
    pools,        \* the pools opened so far: sequence of pool records
    facades,      \* the Database values, one per caller slot
    last          \* the result of the last completed call

vars == <<os, userprofile, home, fs, fsWritable, store, pools, facades, last>>

\* ------------------------------------------------------------ values
None == [some |-> FALSE]
Some(x) == [some |-> TRUE, v |-> x]

\* Result<T, DatabaseError>: Ok(val) or Err(kind, detail).
Ok(val) == [ok |-> TRUE, val |-> val]
Err(kind, detail) == [ok |-> FALSE, kind |-> kind, detail |-> detail]

\* DatabaseError::NotInitialized, a unit variant.
NotInitialized == Err("NotInitialized", <<>>)

\* `?` on a sqlx::Error inside a function returning Result<_, DatabaseError>:
\* the From conversion of the error module wraps the driver's error unchanged.
FromSqlxError(e) == Err("Connection", e)

\* ------------------------------------------------------------- paths
\* A path is the sequence of its components.
join(path, component) == Append(path, component)

\* Path::parent: the path without its last component; None for the empty path.
parent(path) == IF Len(path) = 0 THEN None ELSE Some(SubSeq(path, 1, Len(path) - 1))

file_name(path) == IF Len(path) = 0 THEN None ELSE Some(path[Len(path)])

\* Path::exists on the modelled filesystem.
exists(path) == path \in fs

Prefixes(path) == {SubSeq(path, 1, n) : n \in 1..Len(path)}

\* Whether `frag` occurs in `path` as consecutive components.
ContainsFragment(path, frag) ==
    \E i \in 0..(Len(path) - Len(frag)) : SubSeq(path, i + 1, i + Len(frag)) = frag

\* ------------------------------------------------- platform detection
is_windows == os = "windows"

\* ---------------------------------------------------- the environment
UserProfileDir == <<"C:", "Users", "u">>
HomeDir == <<"home", "u">>
TmpDir == <<"tmp">>

\* std::env::var: Ok(value), or Err(VarError) when the variable is absent or
\* is not valid Unicode.
EnvVarResults ==
    {[ok |-> TRUE, v |-> UserProfileDir],
     [ok |-> FALSE, e |-> "NotPresent"],
     [ok |-> FALSE, e |-> "NotUnicode"]}

HomeDirResults == {None, Some(HomeDir)}

\* --------------------------------------------------- the path resolver
get_default_database_path_no_join ==
    IF is_windows
    THEN IF userprofile.ok
         THEN Ok(join(join(join(userprofile.v, "AppData"), "Local"), "BurnCloud"))
         ELSE Err("PathResolution", <<"USERPROFILE not found", userprofile.e>>)
    ELSE IF home.some
         THEN Ok(join(home.v, ".burncloud"))
         ELSE Err("PathResolution", <<"Home directory not found">>)

get_default_database_path ==
    IF is_windows
    THEN IF userprofile.ok
         THEN Ok(join(join(join(join(userprofile.v, "AppData"), "Local"), "BurnCloud"), "data.db"))
         ELSE Err("PathResolution", <<"USERPROFILE not found", userprofile.e>>)
    ELSE IF home.some
         THEN Ok(join(join(home.v, ".burncloud"), "data.db"))
         ELSE Err("PathResolution", <<"Home directory not found">>)

\* ---------------------------------------------------------- the engine
\* The embedded engine (SQLite) holding one table,
\*   t(id INTEGER PRIMARY KEY, v TEXT).
\* A database is [file, tbl, rows]: whether the file exists, whether t exists,
\* and t's rows, each [id, v], with distinct ids.
NoFile == [file |-> FALSE, tbl |-> FALSE, rows |-> {}]
EmptyDb == [file |-> TRUE, tbl |-> FALSE, rows |-> {}]

\* The statements callers submit.
PlainStatements ==
    {[k |-> "select_1"],                   \* SELECT 1
     [k |-> "invalid"],                    \* INVALID SQL SYNTAX HERE
     [k |-> "create_table"],               \* CREATE TABLE t (...)
     [k |-> "create_table_if_not_exists"], \* CREATE TABLE IF NOT EXISTS t (...)
     [k |-> "select_all"],                 \* SELECT id, v FROM t
     [k |-> "select_bad_column"]}          \* SELECT non_existent_column FROM t
    \cup {[k |-> "insert", id |-> i, v |-> w] : i \in Keys, w \in Vals}
                                           \* INSERT INTO t (id, v) VALUES (i, w)
    \cup {[k |-> "insert_auto", v |-> w] : w \in Vals}
                                           \* INSERT INTO t (v) VALUES (w)
    \cup {[k |-> "select_where", id |-> i] : i \in Keys}
                                           \* SELECT id, v FROM t WHERE id = i
\* SELECT id, v FROM t WHERE v = ?
ParamStatements == {[k |-> "select_by_v"]}
Statements == PlainStatements \cup ParamStatements

\* The row-returning and the failing statements.
Selects ==
    {q \in PlainStatements :
        q.k \in {"select_1", "invalid", "select_all", "select_bad_column", "select_where"}}

\* Two statements that leave every database as it is.
Probes == {[k |-> "select_1"], [k |-> "invalid"]}

\* The parameter vectors callers pass to the *_with_params operations.
ParamVectors == {<<>>} \cup {<<w>> : w \in Vals}

DriverOk(rows, affected, db) == [ok |-> TRUE, rows |-> rows, affected |-> affected, db |-> db]
DriverErr(e, db) == [ok |-> FALSE, e |-> e, rows |-> <<>>, affected |-> 0, db |-> db]

\* Rows in the engine's return order: a scan of t runs in rowid (id) order.
RECURSIVE ScanFrom(_, _)
ScanFrom(rows, k) ==
    IF k > MaxKey THEN <<>>
    ELSE (IF \E r \in rows : r.id = k
          THEN <<CHOOSE r \in rows : r.id = k>>
          ELSE <<>>) \o ScanFrom(rows, k + 1)

Scan(rows) == ScanFrom(rows, 1)

MaxId(rows) == IF rows = {} THEN 0 ELSE CHOOSE m \in {r.id : r \in rows} : \A r \in rows : r.id <= m

\* The engine runs statement q with bound parameters ps on database db.
Engine(db, q, ps) ==
    CASE q.k = "select_1" -> DriverOk(<<[one |-> 1]>>, 0, db)
      [] q.k = "invalid" -> DriverErr("syntax", db)
      [] q.k = "create_table" ->
            IF db.tbl THEN DriverErr("table_exists", db)
            ELSE DriverOk(<<>>, 0, [db EXCEPT !.tbl = TRUE])
      [] q.k = "create_table_if_not_exists" ->
            DriverOk(<<>>, 0, [db EXCEPT !.tbl = TRUE])
      [] q.k = "select_all" ->
            IF ~db.tbl THEN DriverErr("no_such_table", db)
            ELSE DriverOk(Scan(db.rows), 0, db)
      [] q.k = "select_bad_column" ->
            IF ~db.tbl THEN DriverErr("no_such_table", db)
            ELSE DriverErr("no_such_column", db)
      [] q.k = "insert" ->
            IF ~db.tbl THEN DriverErr("no_such_table", db)
            ELSE IF \E r \in db.rows : r.id = q.id THEN DriverErr("constraint_unique", db)
            ELSE DriverOk(<<>>, 1, [db EXCEPT !.rows = @ \cup {[id |-> q.id, v |-> q.v]}])
      [] q.k = "insert_auto" ->
            IF ~db.tbl THEN DriverErr("no_such_table", db)
            ELSE DriverOk(<<>>, 1,
                     [db EXCEPT !.rows = @ \cup {[id |-> MaxId(db.rows) + 1, v |-> q.v]}])
      [] q.k = "select_where" ->
            IF ~db.tbl THEN DriverErr("no_such_table", db)
            ELSE DriverOk(Scan({r \in db.rows : r.id = q.id}), 0, db)
      [] q.k = "select_by_v" ->
            IF ~db.tbl THEN DriverErr("no_such_table", db)
            \* an unbound placeholder is NULL, and v = NULL matches no row
            ELSE IF Len(ps) = 0 THEN DriverOk(<<>>, 0, db)
            ELSE DriverOk(Scan({r \in db.rows : r.v = ps[1]}), 0, db)

\* The record shapes T callers ask the rows to be mapped into: the set of
\* T's fields.
Shapes == {{"id", "v"}, {"name"}}

\* sqlx::FromRow for a derived T: each field is read from the column of its
\* name; a column the row lacks is the driver's ColumnNotFound error.
FromRow(row, T) ==
    IF T \subseteq DOMAIN row
    THEN [ok |-> TRUE, val |-> [c \in T |-> row[c]]]
    ELSE [ok |-> FALSE, e |-> "ColumnNotFound"]

\* ----------------------------------------------------- path strings
\* A path string is [sep, comps]: the components and the separator written
\* between them ("" when there is nothing to separate).
PathString(sep, comps) == [sep |-> IF Len(comps) <= 1 THEN "" ELSE sep, comps |-> comps]

MAIN_SEPARATOR == IF is_windows THEN "\\" ELSE "/"

\* PathBuf::to_string_lossy().to_string(): the components joined by the
\* platform's separator.
to_string_lossy(path) == PathString(MAIN_SEPARATOR, path)

\* The pieces of a component around the backslashes it contains.
SplitAtBackslash(component) ==
    IF component = "a\\b" THEN <<"a", "b">> ELSE <<component>>

RECURSIVE SplitAll(_)
SplitAll(comps) ==
    IF Len(comps) = 0 THEN <<>>
    ELSE SplitAtBackslash(Head(comps)) \o SplitAll(Tail(comps))

\* str::replace('\\', "/"): every backslash of the string becomes a slash,
\* the separators and those inside components alike.
replace_backslash(s) == PathString("/", SplitAll(s.comps))

MemorySentinel == PathString("", <<":memory:">>)

\* The database URL of initialize: sqlite::memory: or sqlite://<path>?mode=rwc.
database_url(database_path) ==
    IF database_path = MemorySentinel
    THEN [memory |-> TRUE, file |-> <<>>, mode |-> ""]
    ELSE [memory |-> FALSE, file |-> replace_backslash(database_path).comps, mode |-> "rwc"]

\* ------------------------------------------------------------- pools
\* A pool is [closed, url, mem, cloned, ops]: mem is the database of an
\* in-memory pool, cloned whether callers hold clones of its handle, ops the
\* operations submitted to it by concurrent callers, in the
\* order of submission, each "waiting" (queued for a connection), "running"
\* (it has borrowed a connection), "done", or "failed" (the pool gave it no
\* connection).
PoolIds == 1..Len(pools)

\* SqlitePoolOptions::max_connections(10)
max_connections == 10

OpsIn(pid, status) == {i \in 1..Len(pools[pid].ops) : pools[pid].ops[i] = status}

\* The connections of the pool that operations have borrowed.
Borrowed(pid) == Cardinality(OpsIn(pid, "running"))

\* The first operation in the queue.
FirstWaiting(pid) == CHOOSE i \in OpsIn(pid, "waiting") : \A j \in OpsIn(pid, "waiting") : i <= j

\* Pool::acquire as an operation begins: a closed pool refuses, a pool with a
\* connection to spare lends it, a pool with all its connections borrowed
\* queues the operation.
acquire_unbounded(pid) ==
    IF pools[pid].closed THEN "failed" ELSE "running"

acquire_ignoring_close(pid) ==
    IF Borrowed(pid) < max_connections THEN "running" ELSE "waiting"

acquire_rejecting(pid) ==
    IF pools[pid].closed THEN "failed"
    ELSE IF Borrowed(pid) < max_connections THEN "running"
    ELSE "failed"

acquire(pid) ==
    IF pools[pid].closed THEN "failed"
    ELSE IF Borrowed(pid) < max_connections THEN "running"
    ELSE "waiting"

\* The directory a database file is opened in exists (the empty path is the
\* working directory).
DirOk(dir) == Len(dir) = 0 \/ dir \in fs

\* SqlitePoolOptions::connect opens the first connection at once: it cannot
\* succeed on a file whose directory is missing, and may fail for the
\* engine's own reasons otherwise.
ConnectOutcomes(url) ==
    IF ~url.memory /\ ~DirOk(parent(url.file).v)
    THEN {"unable_to_open"}
    ELSE {"ok", "unable_to_open"}

\* The database a pool works on.
DbOf(pid) == IF pools[pid].url.memory THEN pools[pid].mem ELSE store[pools[pid].url.file]

\* sqlx: run one statement on the pool. A closed pool refuses it.
PoolRun_create_strict(pid, q, ps) ==
    IF pools[pid].closed
    THEN DriverErr("PoolClosed", DbOf(pid))
    ELSE IF q.k = "create_table_if_not_exists"
    THEN Engine(DbOf(pid), [k |-> "create_table"], ps)
    ELSE Engine(DbOf(pid), q, ps)

PoolRun(pid, q, ps) ==
    IF pools[pid].closed
    THEN DriverErr("PoolClosed", DbOf(pid))
    ELSE Engine(DbOf(pid), q, ps)

\* ------------------------------------------------------- the facade
\* A slot holds a Database [connection, database_path] and where its caller
\* stands: st is "absent" (no Database yet), "new" (Database::new is running,
\* at pc), "live" (the caller owns a Database) or "consumed" (closed).
\* entry, default_path and trace belong to a running Database::new: the
\* function the caller entered by, the resolved path and the steps taken.
NoPath == PathString("", <<>>)

Slot(st, connection_, database_path, entry, pc, default_path, trace) ==
    [st |-> st, connection |-> connection_, database_path |-> database_path,
     entry |-> entry, pc |-> pc, default_path |-> default_path, trace |-> trace]

Absent == Slot("absent", None, NoPath, "", "", <<>>, <<>>)
Consumed == Slot("consumed", None, NoPath, "", "", <<>>, <<>>)
Live(connection_, database_path) ==
    Slot("live", connection_, database_path, "", "", <<>>, <<>>)

\* What a call hands back: its result, how many statements it submitted to
\* the driver, on which pool, the database after it, and what the driver
\* answered ([ok, e, rows, first]: whether the statement ran, the driver's
\* error when it did not, how many rows it returned and the first of them).
NoDriver == [ok |-> FALSE, e |-> "", rows |-> 0, first |-> None]
NotSubmitted(res) == [res |-> res, submits |-> 0, pool |-> 0, db |-> NoFile, drv |-> NoDriver]
Submitted_retrying(res, pid, r) ==
    [res |-> res, submits |-> IF r.ok THEN 1 ELSE 2, pool |-> pid, db |-> r.db,
     drv |-> [ok |-> r.ok, e |-> IF r.ok THEN "" ELSE r.e, rows |-> Len(r.rows),
              first |-> IF Len(r.rows) = 0 THEN None ELSE Some(r.rows[1])]]

Submitted(res, pid, r) ==
    [res |-> res, submits |-> 1, pool |-> pid, db |-> r.db,
     drv |-> [ok |-> r.ok, e |-> IF r.ok THEN "" ELSE r.e, rows |-> Len(r.rows),
              first |-> IF Len(r.rows) = 0 THEN None ELSE Some(r.rows[1])]]

\* Database::connection
connection_unwrap(db) ==
    IF db.connection.some THEN Ok(db.connection.v) ELSE Err("Panic", <<"unwrap on None">>)

connection(db) ==
    IF db.connection.some THEN Ok(db.connection.v) ELSE NotInitialized

\* Database::create_tables
create_tables(db) ==
    LET conn == connection(db) IN
    IF ~conn.ok THEN NotSubmitted(conn) ELSE NotSubmitted(Ok(<<>>))

\* Database::execute_query and Database::execute_query_with_params
execute_query_with_params(db, query, params) ==
    LET conn == connection(db) IN
    IF ~conn.ok THEN NotSubmitted(conn)
    ELSE LET r == PoolRun(conn.val, query, params) IN
         Submitted(IF r.ok THEN Ok([rows_affected |-> r.affected]) ELSE FromSqlxError(r.e),
                   conn.val, r)

execute_query_swallowing(db, query) ==
    LET conn == connection(db) IN
    IF ~conn.ok THEN NotSubmitted(conn)
    ELSE LET r == PoolRun(conn.val, query, <<>>) IN
         Submitted(Ok([rows_affected |-> r.affected]), conn.val, r)

execute_query(db, query) ==
    LET conn == connection(db) IN
    IF ~conn.ok THEN NotSubmitted(conn)
    ELSE LET r == PoolRun(conn.val, query, <<>>) IN
         Submitted(IF r.ok THEN Ok([rows_affected |-> r.affected]) ELSE FromSqlxError(r.e),
                   conn.val, r)

\* Database::query and Database::query_with_params
query_with_params(db, query_, params) ==
    LET conn == connection(db) IN
    IF ~conn.ok THEN NotSubmitted(conn)
    ELSE LET r == PoolRun(conn.val, query_, params) IN
         Submitted(IF r.ok THEN Ok(r.rows) ELSE FromSqlxError(r.e), conn.val, r)

query(db, query_) ==
    LET conn == connection(db) IN
    IF ~conn.ok THEN NotSubmitted(conn)
    ELSE LET r == PoolRun(conn.val, query_, <<>>) IN
         Submitted(IF r.ok THEN Ok(r.rows) ELSE FromSqlxError(r.e), conn.val, r)

\* Database::fetch_one: sqlx's fetch_one yields the first row of the stream,
\* and RowNotFound when the stream is empty.
fetch_one_exactly_one(db, query_, T) ==
    LET conn == connection(db) IN
    IF ~conn.ok THEN NotSubmitted(conn)
    ELSE LET r == PoolRun(conn.val, query_, <<>>) IN
         Submitted(IF ~r.ok THEN FromSqlxError(r.e)
                   ELSE IF Len(r.rows) # 1 THEN FromSqlxError("RowNotFound")
                   ELSE IF FromRow(r.rows[1], T).ok THEN Ok(FromRow(r.rows[1], T).val)
                   ELSE FromSqlxError(FromRow(r.rows[1], T).e),
                   conn.val, r)

fetch_one(db, query_, T) ==
    LET conn == connection(db) IN
    IF ~conn.ok THEN NotSubmitted(conn)
    ELSE LET r == PoolRun(conn.val, query_, <<>>) IN
         Submitted(IF ~r.ok THEN FromSqlxError(r.e)
                   ELSE IF Len(r.rows) = 0 THEN FromSqlxError("RowNotFound")
                   ELSE IF FromRow(r.rows[1], T).ok THEN Ok(FromRow(r.rows[1], T).val)
                   ELSE FromSqlxError(FromRow(r.rows[1], T).e),
                   conn.val, r)

\* Database::fetch_all: every row, in the engine's order, mapped into T.
fetch_all(db, query_, T) ==
    LET conn == connection(db) IN
    IF ~conn.ok THEN NotSubmitted(conn)
    ELSE LET r == PoolRun(conn.val, query_, <<>>) IN
         Submitted(IF ~r.ok THEN FromSqlxError(r.e)
                   ELSE IF \E i \in 1..Len(r.rows) : ~FromRow(r.rows[i], T).ok
                   THEN FromSqlxError("ColumnNotFound")
                   ELSE Ok([i \in 1..Len(r.rows) |-> FromRow(r.rows[i], T).val]),
                   conn.val, r)

\* Database::fetch_optional: sqlx's fetch_optional yields the first row of the
\* stream, and None when the stream is empty.
fetch_optional_row_not_found(db, query_, T) ==
    LET conn == connection(db) IN
    IF ~conn.ok THEN NotSubmitted(conn)
    ELSE LET r == PoolRun(conn.val, query_, <<>>) IN
         Submitted(IF ~r.ok THEN FromSqlxError(r.e)
                   ELSE IF Len(r.rows) = 0 THEN FromSqlxError("RowNotFound")
                   ELSE IF FromRow(r.rows[1], T).ok THEN Ok(Some(FromRow(r.rows[1], T).val))
                   ELSE FromSqlxError(FromRow(r.rows[1], T).e),
                   conn.val, r)

fetch_optional(db, query_, T) ==
    LET conn == connection(db) IN
    IF ~conn.ok THEN NotSubmitted(conn)
    ELSE LET r == PoolRun(conn.val, query_, <<>>) IN
         Submitted(IF ~r.ok THEN FromSqlxError(r.e)
                   ELSE IF Len(r.rows) = 0 THEN Ok(None)
                   ELSE IF FromRow(r.rows[1], T).ok THEN Ok(Some(FromRow(r.rows[1], T).val))
                   ELSE FromSqlxError(FromRow(r.rows[1], T).e),
                   conn.val, r)

\* DatabaseConnection::new: the pool options, then connect. The pool starts
\* with no clone of its handle taken and no operation submitted.
DatabaseConnection_new(url, outcome) ==
    IF outcome = "ok"
    THEN Ok([closed |-> FALSE, url |-> url, mem |-> EmptyDb, cloned |-> FALSE, ops |-> <<>>])
    ELSE FromSqlxError(outcome)

\* Database::initialize on the Database db, the connect ending in `outcome`:
\* the result, the Database after the call and the pool opened, if any.
initialize_clearing(db, outcome) ==
    LET c == DatabaseConnection_new(database_url(db.database_path), outcome) IN
    IF ~c.ok
    THEN [res |-> c, db |-> [db EXCEPT !.connection = None], opened |-> <<>>]
    ELSE [res |-> Ok(<<>>),
          db |-> [db EXCEPT !.connection = Some(Len(pools) + 1)],
          opened |-> <<c.val>>]

initialize_once(db, outcome) ==
    LET c == DatabaseConnection_new(database_url(db.database_path), outcome) IN
    IF db.connection.some
    THEN [res |-> Ok(<<>>), db |-> db, opened |-> <<>>]
    ELSE IF ~c.ok
    THEN [res |-> c, db |-> db, opened |-> <<>>]
    ELSE [res |-> Ok(<<>>),
          db |-> [db EXCEPT !.connection = Some(Len(pools) + 1)],
          opened |-> <<c.val>>]

initialize(db, outcome) ==
    LET c == DatabaseConnection_new(database_url(db.database_path), outcome) IN
    IF ~c.ok
    THEN [res |-> c, db |-> db, opened |-> <<>>]
    ELSE [res |-> Ok(<<>>),
          db |-> [db EXCEPT !.connection = Some(Len(pools) + 1)],
          opened |-> <<c.val>>]

\* Database::close: the pools it closes (DatabaseConnection::close on the held
\* handle) and its result.
close_leaking(db) ==
    [res |-> Ok(<<>>), closes |-> {}]

close(db) ==
    [res |-> Ok(<<>>),
     closes |-> IF db.connection.some THEN {db.connection.v} ELSE {}]

\* ------------------------------------------------------ the state
DefaultPaths ==
    {join(join(join(join(UserProfileDir, "AppData"), "Local"), "BurnCloud"), "data.db"),
     join(join(HomeDir, ".burncloud"), "data.db")}

TmpDb == <<"tmp", "explicit.db">>
InvalidDb == <<"definitely", "invalid", "path", "test.db">>
\* The paths callers give to the explicit-path constructor.
ExplicitPaths == {<<":memory:">>, TmpDb, InvalidDb}

DbFiles == DefaultPaths \cup {TmpDb, InvalidDb}

BaseDirs == Prefixes(UserProfileDir) \cup Prefixes(HomeDir) \cup {TmpDir}
DataDirs == UNION {Prefixes(parent(p).v) : p \in DefaultPaths}

\* The last completed call: the caller's slot, the operation, the statement q
\* it was given (NoStatement when it takes none), the record shape T it asked
\* for ({} when it asked for none), its result, the statements it submitted,
\* the driver's answer, and the steps of a Database::new.
NoStatement == [k |-> "none"]

NoCall == [f |-> 0, op |-> "none", q |-> NoStatement, shape |-> {}, res |-> Ok(<<>>),
           submits |-> 0, drv |-> NoDriver, trace |-> <<>>]

Returned(f, op, T, q, out) ==
    [f |-> f, op |-> op, q |-> q, shape |-> T, res |-> out.res, submits |-> out.submits,
     drv |-> out.drv, trace |-> <<>>]

NewReturned(f, entry, res, trace) ==
    [NoCall EXCEPT !.f = f, !.op = entry, !.res = res, !.trace = trace]

Init ==
    /\ os \in {"windows", "other"}
    /\ userprofile \in EnvVarResults
    /\ home \in HomeDirResults
    /\ fs \in {BaseDirs, BaseDirs \cup DataDirs}
    /\ fsWritable \in BOOLEAN
    /\ store = [p \in DbFiles |-> NoFile]
    /\ pools = <<>>
    /\ facades = [f \in Facades |-> Absent]
    /\ last = NoCall

\* The effect of a successful connect on the files: mode=rwc creates the
\* database file when it does not exist.
Created_truncating(url) ==
    IF url.memory THEN store ELSE [store EXCEPT ![url.file] = EmptyDb]

Created(url) ==
    IF url.memory \/ store[url.file].file THEN store
    ELSE [store EXCEPT ![url.file] = EmptyDb]

Opened(out) ==
    /\ pools' = pools \o out.opened
    /\ store' = IF out.opened = <<>> THEN store ELSE Created(out.opened[1].url)

\* ------------------------------------------------- Database::new
\* Database::new runs in steps, so that several callers interleave:
\* get_default_database_path; create_directory_if_not_exists (the exists
\* check, then create_dir_all); the construction and initialize.

\* let default_path = get_default_database_path()?;
Database_new_resolve(f, entry) ==
    /\ facades[f].st = "absent"
    /\ LET r == get_default_database_path IN
       IF r.ok
       THEN /\ facades' = [facades EXCEPT ![f] =
                   Slot("new", None, NoPath, entry, "exists", r.val, <<"resolve">>)]
            /\ UNCHANGED last
       ELSE /\ last' = NewReturned(f, entry, r, <<"resolve">>)
            /\ UNCHANGED facades
    /\ UNCHANGED <<os, userprofile, home, fs, fsWritable, store, pools>>

\* create_directory_if_not_exists, up to the test of parent.exists(): where
\* the call goes next.
create_directory_if_not_exists_skip(path) == "initialize"

create_directory_if_not_exists_always_create(path) ==
    IF ~parent(path).some THEN "initialize" ELSE "create_dir_all"

create_directory_if_not_exists_check(path) ==
    IF ~parent(path).some THEN "initialize"
    ELSE IF ~exists(parent(path).v) THEN "create_dir_all"
    ELSE "initialize"

Database_new_check_dir(f) ==
    /\ facades[f].st = "new"
    /\ facades[f].pc = "exists"
    /\ facades' = [facades EXCEPT
           ![f].pc = create_directory_if_not_exists_check(facades[f].default_path),
           ![f].trace = Append(@, IF parent(facades[f].default_path).some
                                     /\ exists(parent(facades[f].default_path).v)
                                  THEN "exists:true" ELSE "exists:false")]
    /\ UNCHANGED <<os, userprofile, home, fs, fsWritable, store, pools, last>>

\* std::fs::create_dir_all(dir): Ok when dir is there already, creates dir and
\* its missing ancestors when it may, and fails otherwise.
create_dir_all_exclusive(dir) ==
    IF exists(dir) THEN [ok |-> FALSE, e |-> "AlreadyExists", fs |-> fs]
    ELSE IF fsWritable THEN [ok |-> TRUE, fs |-> fs \cup Prefixes(dir)]
    ELSE [ok |-> FALSE, e |-> "PermissionDenied", fs |-> fs]

create_dir_all(dir) ==
    IF exists(dir) THEN [ok |-> TRUE, fs |-> fs]
    ELSE IF fsWritable THEN [ok |-> TRUE, fs |-> fs \cup Prefixes(dir)]
    ELSE [ok |-> FALSE, e |-> "PermissionDenied", fs |-> fs]

\* create_directory_if_not_exists, from create_dir_all on: the result and the
\* filesystem after it.
create_directory_if_not_exists_wrong_kind(path) ==
    LET c == create_dir_all(parent(path).v) IN
    IF c.ok THEN [res |-> Ok(<<>>), fs |-> c.fs]
    ELSE [res |-> Err("PathResolution", <<parent(path).v, c.e>>), fs |-> c.fs]

create_directory_if_not_exists_create(path) ==
    LET c == create_dir_all(parent(path).v) IN
    IF c.ok THEN [res |-> Ok(<<>>), fs |-> c.fs]
    ELSE [res |-> Err("DirectoryCreation", <<parent(path).v, c.e>>), fs |-> c.fs]

Database_new_create_dir(f) ==
    /\ facades[f].st = "new"
    /\ facades[f].pc = "create_dir_all"
    /\ LET out == create_directory_if_not_exists_create(facades[f].default_path)
           trace == Append(facades[f].trace, "create_dir_all") IN
       /\ fs' = out.fs
       /\ IF out.res.ok
          THEN /\ facades' = [facades EXCEPT ![f].pc = "initialize", ![f].trace = trace]
               /\ UNCHANGED last
          ELSE /\ facades' = [facades EXCEPT ![f] = Absent]
               /\ last' = NewReturned(f, facades[f].entry, out.res, trace)
    /\ UNCHANGED <<os, userprofile, home, fsWritable, store, pools>>

\* let mut db = Self { connection: None, database_path: path };
\* db.initialize().await?; Ok(db)
Database_new_initialize(f) ==
    /\ facades[f].st = "new"
    /\ facades[f].pc = "initialize"
    /\ Len(pools) < MaxPools
    /\ LET path == to_string_lossy(facades[f].default_path)
           db == Live(None, path)
           trace == Append(facades[f].trace, "connect") IN
       \E outcome \in ConnectOutcomes(database_url(path)) :
          LET out == initialize(db, outcome) IN
          /\ Opened(out)
          /\ facades' = [facades EXCEPT ![f] = IF out.res.ok THEN out.db ELSE Absent]
          /\ last' = NewReturned(f, facades[f].entry,
                                IF out.res.ok THEN Ok("Database") ELSE out.res, trace)
    /\ UNCHANGED <<os, userprofile, home, fs, fsWritable>>

\* A caller asks for the default path alone.
Call_get_default_database_path(f) ==
    /\ facades[f].st = "absent"
    /\ last' = [NoCall EXCEPT !.f = f, !.op = "get_default_database_path",
                              !.res = get_default_database_path]
    /\ UNCHANGED <<os, userprofile, home, fs, fsWritable, store, pools, facades>>

\* The caller enters Database::new directly.
Database_new(f) == Database_new_resolve(f, "new")

create_default_database_unopened(f) ==
    /\ facades[f].st = "absent"
    /\ get_default_database_path.ok
    /\ facades' = [facades EXCEPT
           ![f] = Live(None, to_string_lossy(get_default_database_path.val))]
    /\ last' = NewReturned(f, "create_default_database", Ok("Database"), <<"resolve">>)
    /\ UNCHANGED <<os, userprofile, home, fs, fsWritable, store, pools>>

\* create_default_database: Database::new().await
create_default_database(f) == Database_new_resolve(f, "create_default_database")

\* ------------------------------------------- the other operations
\* The explicit-path constructor: it keeps the path and opens nothing.
new_with_path(path) == Live(None, to_string_lossy(path))

Database_new_with_path(f) ==
    /\ facades[f].st = "absent"
    /\ \E path \in ExplicitPaths :
          /\ facades' = [facades EXCEPT ![f] = new_with_path(path)]
          /\ last' = [NoCall EXCEPT !.f = f, !.op = "new_with_path", !.res = Ok("Database")]
    /\ UNCHANGED <<os, userprofile, home, fs, fsWritable, store, pools>>

Database_initialize(f) ==
    /\ facades[f].st = "live"
    /\ Len(pools) < MaxPools
    /\ \E outcome \in ConnectOutcomes(database_url(facades[f].database_path)) :
          LET out == initialize(facades[f], outcome) IN
          /\ Opened(out)
          /\ facades' = [facades EXCEPT ![f] = out.db]
          /\ last' = [NoCall EXCEPT !.f = f, !.op = "initialize", !.res = out.res]
    /\ UNCHANGED <<os, userprofile, home, fs, fsWritable>>

Database_connection(f) ==
    /\ facades[f].st = "live"
    /\ last' = [NoCall EXCEPT !.f = f, !.op = "connection", !.res = connection(facades[f])]
    /\ UNCHANGED <<os, userprofile, home, fs, fsWritable, store, pools, facades>>

\* DatabaseConnection::close: self.pool.close().await
DatabaseConnection_close(pid) == [pools EXCEPT ![pid].closed = TRUE]

Database_close(f) ==
    /\ facades[f].st = "live"
    /\ LET out == close(facades[f]) IN
       /\ pools' = [pid \in PoolIds |->
                       IF pid \in out.closes THEN DatabaseConnection_close(pid)[pid]
                       ELSE pools[pid]]
       /\ last' = [NoCall EXCEPT !.f = f, !.op = "close", !.res = out.res]
    /\ facades' = [facades EXCEPT ![f] = Consumed]
    /\ UNCHANGED <<os, userprofile, home, fs, fsWritable, store>>

\* The statements submitted in the model: INSERT without an id only while
\* the next rowid is a key of the model.
Admissible(db, q) ==
    q.k = "insert_auto" /\ db.connection.some
        => MaxId(DbOf(db.connection.v).rows) < MaxKey

Commit_poisoning(out) ==
    IF out.submits = 0 THEN UNCHANGED <<store, pools>>
    ELSE IF ~out.drv.ok
         THEN /\ pools' = [pools EXCEPT ![out.pool].closed = TRUE]
              /\ UNCHANGED store
    ELSE IF pools[out.pool].url.memory
         THEN /\ pools' = [pools EXCEPT ![out.pool].mem = out.db]
              /\ UNCHANGED store
         ELSE /\ store' = [store EXCEPT ![pools[out.pool].url.file] = out.db]
              /\ UNCHANGED pools

Commit_losing_rows(out) ==
    IF out.submits = 0 THEN UNCHANGED <<store, pools>>
    ELSE LET db == [out.db EXCEPT !.rows = DbOf(out.pool).rows] IN
         IF pools[out.pool].url.memory
         THEN /\ pools' = [pools EXCEPT ![out.pool].mem = db]
              /\ UNCHANGED store
         ELSE /\ store' = [store EXCEPT ![pools[out.pool].url.file] = db]
              /\ UNCHANGED pools

\* The database a call leaves behind.
Commit(out) ==
    IF out.submits = 0 THEN UNCHANGED <<store, pools>>
    ELSE IF pools[out.pool].url.memory
         THEN /\ pools' = [pools EXCEPT ![out.pool].mem = out.db]
              /\ UNCHANGED store
         ELSE /\ store' = [store EXCEPT ![pools[out.pool].url.file] = out.db]
              /\ UNCHANGED pools

Call(f, op, T, q, out) ==
    /\ last' = Returned(f, op, T, q, out)
    /\ Commit(out)
    /\ UNCHANGED <<os, userprofile, home, fs, fsWritable, facades>>

\* In the actions of the query surface, Q is the set of statements the model
\* draws the call's statement from.
Database_create_tables(f) ==
    /\ facades[f].st = "live"
    /\ Call(f, "create_tables", {}, NoStatement, create_tables(facades[f]))

Database_execute_query(f, Q) ==
    /\ facades[f].st = "live"
    /\ \E q \in Q :
          /\ Admissible(facades[f], q)
          /\ Call(f, "execute_query", {}, q, execute_query(facades[f], q))

Database_execute_query_with_params(f, Q) ==
    /\ facades[f].st = "live"
    /\ \E q \in Q, ps \in ParamVectors :
          /\ Admissible(facades[f], q)
          /\ Call(f, "execute_query_with_params", {}, q,
                  execute_query_with_params(facades[f], q, ps))

Database_query(f, Q) ==
    /\ facades[f].st = "live"
    /\ \E q \in Q :
          /\ Admissible(facades[f], q)
          /\ Call(f, "query", {}, q, query(facades[f], q))

Database_query_with_params(f, Q) ==
    /\ facades[f].st = "live"
    /\ \E q \in Q, ps \in ParamVectors :
          /\ Admissible(facades[f], q)
          /\ Call(f, "query_with_params", {}, q, query_with_params(facades[f], q, ps))

Database_fetch_one(f, Q) ==
    /\ facades[f].st = "live"
    /\ \E q \in Q, T \in Shapes :
          /\ Admissible(facades[f], q)
          /\ Call(f, "fetch_one", T, q, fetch_one(facades[f], q, T))

Database_fetch_all(f, Q) ==
    /\ facades[f].st = "live"
    /\ \E q \in Q, T \in Shapes :
          /\ Admissible(facades[f], q)
          /\ Call(f, "fetch_all", T, q, fetch_all(facades[f], q, T))

Database_fetch_optional(f, Q) ==
    /\ facades[f].st = "live"
    /\ \E q \in Q, T \in Shapes :
          /\ Admissible(facades[f], q)
          /\ Call(f, "fetch_optional", T, q, fetch_optional(facades[f], q, T))

\* -------------------------------------------- concurrent operations
\* Concurrent callers run statements that change no database (SELECT i) on
\* one pool, through the facade or through clones of its handle. Each
\* operation acquires a connection, runs, and returns it.

\* db.connection()?.clone(): one more handle on the facade's pool.
Database_connection_clone(f) ==
    /\ facades[f].st = "live"
    /\ connection(facades[f]).ok
    /\ pools' = [pools EXCEPT ![connection(facades[f]).val].cloned = TRUE]
    /\ UNCHANGED <<os, userprofile, home, fs, fsWritable, store, facades, last>>

\* The callers that can reach pool pid: a live facade that holds it, or a clone.
Reachable(pid) ==
    \/ pools[pid].cloned
    \/ \E f \in Facades : facades[f].st = "live" /\ facades[f].connection = Some(pid)

\* A caller submits an operation: sqlx::query(..).execute(pool) begins.
Pool_submit(pid) ==
    /\ pid \in PoolIds
    /\ Reachable(pid)
    /\ Len(pools[pid].ops) < MaxOps
    /\ pools' = [pools EXCEPT ![pid].ops = Append(@, acquire(pid))]
    /\ UNCHANGED <<os, userprofile, home, fs, fsWritable, store, facades, last>>

\* A returned connection goes to the first operation of the queue.
Pool_grant(pid) ==
    /\ pid \in PoolIds
    /\ ~pools[pid].closed
    /\ OpsIn(pid, "waiting") # {}
    /\ Borrowed(pid) < max_connections
    /\ pools' = [pools EXCEPT ![pid].ops[FirstWaiting(pid)] = "running"]
    /\ UNCHANGED <<os, userprofile, home, fs, fsWritable, store, facades, last>>

\* The code sets no acquire timeout, so the pool's default one applies: an
\* operation still queued when it expires fails with PoolTimedOut.
Pool_timeout(pid) ==
    /\ pid \in PoolIds
    /\ OpsIn(pid, "waiting") # {}
    /\ pools' = [pools EXCEPT ![pid].ops[FirstWaiting(pid)] = "failed"]
    /\ UNCHANGED <<os, userprofile, home, fs, fsWritable, store, facades, last>>

\* A closed pool wakes the operations of its queue with PoolClosed.
Pool_reject(pid) ==
    /\ pid \in PoolIds
    /\ pools[pid].closed
    /\ OpsIn(pid, "waiting") # {}
    /\ pools' = [pools EXCEPT ![pid].ops[FirstWaiting(pid)] = "failed"]
    /\ UNCHANGED <<os, userprofile, home, fs, fsWritable, store, facades, last>>

\* A running operation finishes its statement and returns its connection.
Pool_release(pid) ==
    /\ pid \in PoolIds
    /\ \E i \in OpsIn(pid, "running") :
          pools' = [pools EXCEPT ![pid].ops[i] = "done"]
    /\ UNCHANGED <<os, userprofile, home, fs, fsWritable, store, facades, last>>

\* ------------------------------------------------- specifications
\* Every operation, by every caller, in every environment.
Next ==
    \E f \in Facades :
        \/ Call_get_default_database_path(f)
        \/ Database_new(f)
        \/ create_default_database(f)
        \/ Database_new_check_dir(f)
        \/ Database_new_create_dir(f)
        \/ Database_new_initialize(f)
        \/ Database_new_with_path(f)
        \/ Database_initialize(f)
        \/ Database_connection(f)
        \/ Database_close(f)
        \/ Database_create_tables(f)
        \/ Database_execute_query(f, Statements)
        \/ Database_execute_query_with_params(f, Statements)
        \/ Database_query(f, Statements)
        \/ Database_query_with_params(f, Statements)
        \/ Database_fetch_one(f, Statements)
        \/ Database_fetch_all(f, Statements)
        \/ Database_fetch_optional(f, Statements)

Spec == Init /\ [][Next]_vars

\* Default-path construction: callers of Database::new and of
\* create_default_database in every environment, who then read the connection
\* and close.
NextNew ==
    \E f \in Facades :
        \/ Call_get_default_database_path(f)
        \/ Database_new(f)
        \/ create_default_database(f)
        \/ Database_new_check_dir(f)
        \/ Database_new_create_dir(f)
        \/ Database_new_initialize(f)
        \/ Database_connection(f)
        \/ Database_close(f)

SpecNew == Init /\ [][NextNew]_vars

\* One environment: a Unix family host whose home directory exists.
InitUnix ==
    /\ Init
    /\ os = "other"
    /\ userprofile = [ok |-> FALSE, e |-> "NotPresent"]
    /\ home = Some(HomeDir)
    /\ fs = BaseDirs
    /\ fsWritable

\* The facade's life cycle: callers who construct with an explicit path,
\* initialize, call the query surface with statements that change no
\* database, and close.
NextFacade ==
    \E f \in Facades :
        \/ Database_new_with_path(f)
        \/ Database_initialize(f)
        \/ Database_connection(f)
        \/ Database_close(f)
        \/ Database_create_tables(f)
        \/ Database_execute_query(f, Probes)
        \/ Database_execute_query_with_params(f, ParamStatements)
        \/ Database_query(f, Probes)
        \/ Database_query_with_params(f, ParamStatements)
        \/ Database_fetch_one(f, Probes)
        \/ Database_fetch_all(f, Probes)
        \/ Database_fetch_optional(f, Probes)

SpecFacade == InitUnix /\ [][NextFacade]_vars

\* The query surface over the data: one caller who constructs with an
\* explicit path, initializes, and submits statements of every kind.
NextQuery ==
    \E f \in {1} :
        \/ Database_new_with_path(f)
        \/ Database_initialize(f)
        \/ Database_execute_query(f, PlainStatements)
        \/ Database_execute_query_with_params(f, ParamStatements)
        \/ Database_query(f, Selects)
        \/ Database_query_with_params(f, ParamStatements)
        \/ Database_fetch_one(f, Selects)
        \/ Database_fetch_all(f, Selects)
        \/ Database_fetch_optional(f, Selects)

SpecQuery == InitUnix /\ [][NextQuery]_vars

\* The round trip: one caller who initializes once, creates the table, inserts
\* rows of two different texts, with and without an explicit key, and fetches
\* them back.
RoundTripVals == {"x", "y"}

RoundTripWrites ==
    {[k |-> "create_table"], [k |-> "create_table_if_not_exists"]}
    \cup {[k |-> "insert", id |-> i, v |-> w] : i \in Keys, w \in RoundTripVals}
    \cup {[k |-> "insert_auto", v |-> w] : w \in RoundTripVals}

RoundTripReads ==
    {[k |-> "select_all"]} \cup {[k |-> "select_where", id |-> i] : i \in Keys}

NextRoundTrip ==
    \E f \in {1} :
        \/ Database_new_with_path(f)
        \/ (~facades[f].connection.some /\ Database_initialize(f))
        \/ Database_execute_query(f, RoundTripWrites)
        \/ Database_fetch_one(f, RoundTripReads)
        \/ Database_fetch_all(f, RoundTripReads)

SpecRoundTrip == InitUnix /\ [][NextRoundTrip]_vars

\* Persistence: callers who open the default path through Database::new and
\* close; the caller of slot 1 writes, every caller reads the table back.
PersistWrites ==
    {[k |-> "create_table_if_not_exists"]}
    \cup {[k |-> "insert", id |-> i, v |-> w] : i \in Keys, w \in Vals}
    \cup {[k |-> "insert_auto", v |-> w] : w \in Vals}

NextPersist ==
    \/ \E f \in Facades :
          \/ Database_new(f)
          \/ Database_new_check_dir(f)
          \/ Database_new_create_dir(f)
          \/ Database_new_initialize(f)
          \/ Database_close(f)
          \/ Database_fetch_all(f, {[k |-> "select_all"]})
    \/ Database_execute_query(1, PersistWrites)

SpecPersist == Init /\ [][NextPersist]_vars

\* The pool under load: one facade on the default path, its handle cloned,
\* and concurrent operations on the pool, before and after the facade's close.
NextPool ==
    \/ \E f \in {1} :
          \/ create_default_database(f)
          \/ Database_new_check_dir(f)
          \/ Database_new_create_dir(f)
          \/ Database_new_initialize(f)
          \/ Database_connection_clone(f)
          \/ Database_close(f)
    \/ \E pid \in 1..MaxPools :
          \/ Pool_submit(pid)
          \/ Pool_grant(pid)
          \/ Pool_timeout(pid)
          \/ Pool_reject(pid)
          \/ Pool_release(pid)

SpecPool == InitUnix /\ [][NextPool]_vars

\* The scheduling the pool gives its operations: a running operation ends and
\* returns its connection, a returned connection is handed to the queue, and a
\* closed pool wakes its queue.
PoolFairness ==
    \A pid \in 1..MaxPools :
        /\ WF_vars(Pool_release(pid))
        /\ WF_vars(Pool_grant(pid))
        /\ WF_vars(Pool_reject(pid))

SpecPoolFair == SpecPool /\ PoolFairness

\* The URL of initialize: hosts of both families, among them one whose home
\* directory has a backslash in its name (a legal file name outside Windows),
\* with and without a directory at the place the name reads as when the
\* backslash is taken for a separator.
BackslashHome == <<"home", "a\\b">>
BackslashDb == join(join(BackslashHome, ".burncloud"), "data.db")
AliasDir == <<"home", "a", "b", ".burncloud">>
AliasDb == join(AliasDir, "data.db")

InitUrl ==
    /\ os \in {"windows", "other"}
    /\ userprofile = [ok |-> TRUE, v |-> UserProfileDir]
    /\ home \in {Some(HomeDir), Some(BackslashHome)}
    /\ fs \in {BaseDirs \cup Prefixes(BackslashHome),
               BaseDirs \cup Prefixes(BackslashHome) \cup Prefixes(AliasDir)}
    /\ fsWritable = TRUE
    /\ store = [p \in DbFiles \cup {BackslashDb, AliasDb} |-> NoFile]
    /\ pools = <<>>
    /\ facades = [f \in Facades |-> Absent]
    /\ last = NoCall

NextUrl ==
    \E f \in Facades :
        \/ Database_new(f)
        \/ Database_new_check_dir(f)
        \/ Database_new_create_dir(f)
        \/ Database_new_initialize(f)
        \/ Database_new_with_path(f)
        \/ Database_initialize(f)

SpecUrl == InitUrl /\ [][NextUrl]_vars

\* Concurrent construction: tasks that call Database::new at once on a host
\* of either family where the default path resolves, the data directory there
\* or not, creatable or not; their steps interleaved; they then run SELECT 1 on
\* the facades they got and close them.
InitRace ==
    /\ Init
    /\ userprofile = [ok |-> TRUE, v |-> UserProfileDir]
    /\ home = Some(HomeDir)

NextRace ==
    \E f \in Facades :
        \/ Database_new(f)
        \/ Database_new_check_dir(f)
        \/ Database_new_create_dir(f)
        \/ Database_new_initialize(f)
        \/ Database_execute_query(f, {[k |-> "select_1"]})
        \/ Database_close(f)

SpecRace == InitRace /\ [][NextRace]_vars

\* Each task is scheduled again until its call returns: a call of
\* Database::new that has started takes its next step.
RaceFairness ==
    \A f \in Facades :
        /\ WF_vars(Database_new_check_dir(f))
        /\ WF_vars(Database_new_create_dir(f))
        /\ WF_vars(Database_new_initialize(f))

SpecRaceFair == SpecRace /\ RaceFairness

\* Submissions: one caller in every environment who constructs with
\* Database::new and calls every operation of the query surface, with
\* statements the driver accepts and statements it refuses.
NextSubmit ==
    \E f \in {1} :
        \/ Database_new(f)
        \/ Database_new_check_dir(f)
        \/ Database_new_create_dir(f)
        \/ Database_new_initialize(f)
        \/ Database_create_tables(f)
        \/ Database_execute_query(f, Probes)
        \/ Database_execute_query_with_params(f, ParamStatements)
        \/ Database_query(f, Probes)
        \/ Database_query_with_params(f, ParamStatements)
        \/ Database_fetch_one(f, Probes)
        \/ Database_fetch_all(f, Probes)
        \/ Database_fetch_optional(f, Probes)

SpecSubmit == Init /\ [][NextSubmit]_vars

\* Explicit paths: the callers' paths and one through a directory with a
\* backslash in its name, on a host where that directory does not exist while
\* the directory its name reads as with the backslash as a separator may.
Database_new_with_path_any(f) ==
    /\ facades[f].st = "absent"
    /\ \E path \in ExplicitPaths \cup {BackslashDb} :
          /\ facades' = [facades EXCEPT ![f] = new_with_path(path)]
          /\ last' = [NoCall EXCEPT !.f = f, !.op = "new_with_path", !.res = Ok("Database")]
    /\ UNCHANGED <<os, userprofile, home, fs, fsWritable, store, pools>>

InitExplicit ==
    /\ os = "other"
    /\ userprofile = [ok |-> FALSE, e |-> "NotPresent"]
    /\ home = Some(HomeDir)
    /\ fs \in {BaseDirs, BaseDirs \cup Prefixes(AliasDir)}
    /\ fsWritable = TRUE
    /\ store = [p \in DbFiles \cup {BackslashDb, AliasDb} |-> NoFile]
    /\ pools = <<>>
    /\ facades = [f \in Facades |-> Absent]
    /\ last = NoCall

NextExplicit ==
    \E f \in Facades :
        \/ Database_new_with_path_any(f)
        \/ Database_initialize(f)
        \/ Database_connection(f)
        \/ Database_execute_query(f, Probes)
        \/ Database_fetch_one(f, Probes)
        \/ Database_close(f)

SpecExplicit == InitExplicit /\ [][NextExplicit]_vars

\* ------------------------------------------------------------ claims
QuerySurface ==
    {"create_tables", "execute_query", "execute_query_with_params", "query",
     "query_with_params", "fetch_one", "fetch_all", "fetch_optional"}

NewEntries == {"new", "create_default_database"}

\* The two states of a Database its caller owns.
Unopened(f) == facades[f].st = "live" /\ ~facades[f].connection.some
Initialized(f) == facades[f].st = "live" /\ facades[f].connection.some

\* What FromRow makes of a row for the record shape T.
Mapped(row, T) == [c \in T |-> row[c]]

\* C1: on an Unopened facade (connection unset), connection() and every
\* operation of the query surface return NotInitialized (not a panic, not any
\* other error) and submit no statement to the driver.
C1_UnopenedNotInitialized ==
    (last.op \in QuerySurface \cup {"connection"} /\ Unopened(last.f)) =>
        /\ last.res = NotInitialized
        /\ last.submits = 0

C1_Witness ==
    /\ last.op = "fetch_one"
    /\ Unopened(last.f)
    /\ last.res = NotInitialized

\* C2: when Database::new or create_default_database returns Ok, the facade
\* returned is Initialized: connection() is Ok and the pool it holds is open;
\* through either entry the call has taken the same steps (resolve, the exists
\* test, create_dir_all when the directory was missing, connect).
C2_NewOkInitialized ==
    (last.op \in NewEntries /\ last.res.ok) =>
        /\ facades[last.f].st = "live"
        /\ connection(facades[last.f]).ok
        /\ ~pools[connection(facades[last.f]).val].closed
        /\ last.trace \in {<<"resolve", "exists:true", "connect">>,
                           <<"resolve", "exists:false", "create_dir_all", "connect">>}

C2_Witness ==
    /\ last.op = "create_default_database"
    /\ last.res.ok
    /\ Initialized(last.f)

\* C3: a facade that is Initialized stays Initialized through every step
\* (initialize, successful or failing, and the query surface); the only step
\* that ends the Initialized state is the facade's own close, which consumes
\* it. It never returns to Unopened.
C3_OneWay ==
    [][\A f \in Facades :
          Initialized(f) =>
              \/ (facades'[f].st = "live" /\ facades'[f].connection.some)
              \/ (facades'[f].st = "consumed" /\ last'.op = "close" /\ last'.f = f)]_vars

C3_Witness ==
    /\ last.op = "initialize"
    /\ ~last.res.ok
    /\ Initialized(last.f)

\* C4: close returns Ok; on an Initialized facade it closes the held pool (and
\* no other); on an Unopened facade it touches no pool; it consumes the facade:
\* no operation follows on a consumed facade.
C4_Close ==
    [][\A f \in Facades :
          /\ (facades[f].st = "live" /\ facades'[f].st = "consumed") =>
                /\ last' = [NoCall EXCEPT !.f = f, !.op = "close", !.res = Ok(<<>>)]
                /\ IF facades[f].connection.some
                   THEN pools' = [pools EXCEPT ![facades[f].connection.v].closed = TRUE]
                   ELSE pools' = pools
                /\ store' = store
          /\ facades[f].st = "consumed" =>
                /\ facades'[f] = facades[f]
                /\ last'.f = f => last' = last]_vars

C4_Witness ==
    /\ last.op = "close"
    /\ facades[last.f].st = "consumed"
    /\ \E pid \in PoolIds : pools[pid].closed

\* C5: a failure of Database::new / create_default_database carries the kind
\* of the step that failed: PathResolution for the path resolution,
\* DirectoryCreation for create_dir_all, Connection for the pool open; so never
\* NotInitialized and never a panic.
C5_NewFailureKinds ==
    (last.op \in NewEntries /\ ~last.res.ok) =>
        LET step == last.trace[Len(last.trace)] IN
        \/ step = "resolve" /\ last.res.kind = "PathResolution"
        \/ step = "create_dir_all" /\ last.res.kind = "DirectoryCreation"
        \/ step = "connect" /\ last.res.kind = "Connection"

C5_Witness ==
    /\ last.op \in NewEntries
    /\ ~last.res.ok
    /\ last.res.kind = "Connection"

\* C6: get_default_database_path is the function of (OS family, USERPROFILE,
\* home directory) the claim gives: on Windows <USERPROFILE>/AppData/Local/
\* BurnCloud/data.db when USERPROFILE yields a value and a PathResolution error
\* otherwise; elsewhere <home>/.burncloud/data.db when the home directory is
\* resolvable and a PathResolution error otherwise; every Ok result ends in
\* data.db and contains the platform's directory fragment.
C6_DefaultPath ==
    last.op = "get_default_database_path" =>
        /\ IF os = "windows"
           THEN IF userprofile.ok
                THEN last.res = Ok(userprofile.v \o <<"AppData", "Local", "BurnCloud", "data.db">>)
                ELSE ~last.res.ok /\ last.res.kind = "PathResolution"
           ELSE IF home.some
                THEN last.res = Ok(home.v \o <<".burncloud", "data.db">>)
                ELSE ~last.res.ok /\ last.res.kind = "PathResolution"
        /\ last.res.ok =>
              /\ file_name(last.res.val) = Some("data.db")
              /\ ContainsFragment(last.res.val,
                                  IF os = "windows" THEN <<"AppData", "Local", "BurnCloud">>
                                  ELSE <<".burncloud">>)

C6_Witness ==
    /\ last.op = "get_default_database_path"
    /\ os = "windows"
    /\ last.res.ok

\* C7: Database::new runs path resolution, then directory provisioning, then
\* the pool open: the step that opens the pool is taken only when the parent
\* directory of the resolved path exists; no earlier step opens a pool or
\* creates a database file; a call that fails opens no pool, and when it is
\* the path resolution that fails no directory is created either.
C7_StepOrder ==
    [][\A f \in Facades :
          /\ (facades[f].st = "new" /\ facades[f].pc = "initialize"
                /\ facades'[f] # facades[f]) =>
                /\ exists(parent(facades[f].default_path).v)
                /\ last'.trace[Len(last'.trace)] = "connect"
          /\ ((facades[f].st = "absent" \/ facades[f].pc \in {"exists", "create_dir_all"})
                /\ facades'[f] # facades[f]) =>
                (pools' = pools /\ store' = store)
          /\ (last'.f = f /\ last'.op \in NewEntries /\ ~last'.res.ok
                /\ <<last'.f, last'.op, last'.trace, last'.res.ok>>
                       # <<last.f, last.op, last.trace, last.res.ok>>) =>
                /\ pools' = pools /\ store' = store
                /\ last'.res.kind = "PathResolution" =>
                      (fs' = fs /\ last'.trace = <<"resolve">>)
                /\ last'.res.kind = "DirectoryCreation" =>
                      last'.trace = <<"resolve", "exists:false", "create_dir_all">>]_vars

C7_Witness ==
    /\ last.op \in NewEntries
    /\ last.res.ok
    /\ last.trace = <<"resolve", "exists:false", "create_dir_all", "connect">>

\* C8: create_directory_if_not_exists(path): when it returns Ok the parent
\* directory of path exists; when that parent existed at the call it returns
\* at once and leaves the filesystem unchanged (create_dir_all is not called);
\* when the creation fails the error is DirectoryCreation, carrying the parent
\* path and the filesystem's error.
C8_CreateDirectory ==
    [][\A f \in Facades :
          LET dir == parent(facades[f].default_path).v IN
          /\ (facades[f].st = "new" /\ facades[f].pc \in {"exists", "create_dir_all"}
                /\ facades'[f].st = "new" /\ facades'[f].pc = "initialize") =>
                dir \in fs'
          /\ (facades[f].st = "new" /\ facades[f].pc = "exists" /\ dir \in fs
                /\ facades'[f] # facades[f]) =>
                (facades'[f].pc = "initialize" /\ fs' = fs)
          /\ (facades[f].st = "new" /\ facades[f].pc = "create_dir_all"
                /\ facades'[f].st = "absent") =>
                /\ last'.res = Err("DirectoryCreation", <<dir, "PermissionDenied">>)
                /\ fs' = fs]_vars

C8_Witness ==
    \E f \in Facades :
        /\ facades[f].st = "new"
        /\ facades[f].pc = "initialize"
        /\ facades[f].trace = <<"resolve", "exists:true">>

\* C9 as claimed: fetch_one on an Initialized facade fails when the statement
\* returns zero rows and when it returns more than one row, and succeeds only
\* on exactly one row.
C9_AsClaimed ==
    (last.op = "fetch_one" /\ Initialized(last.f)) =>
        /\ last.drv.rows = 0 => ~last.res.ok
        /\ last.drv.rows > 1 => ~last.res.ok
        /\ last.res.ok => last.drv.rows = 1

\* C9, amended: fetch_one on an Initialized facade fails when the statement
\* returns zero rows, and succeeds only when at least one row is returned;
\* more than one row is no failure: the first row is returned, mapped into T
\* (T's fields being columns of the statement).
C9_FetchOneFirstRow ==
    (last.op = "fetch_one" /\ Initialized(last.f) /\ last.drv.ok) =>
        /\ last.drv.rows = 0 => ~last.res.ok
        /\ last.res.ok => last.drv.rows >= 1
        /\ (last.drv.rows >= 1 /\ last.shape \subseteq DOMAIN last.drv.first.v) =>
              last.res = Ok(Mapped(last.drv.first.v, last.shape))

C9_Witness ==
    /\ last.op = "fetch_one"
    /\ Initialized(last.f)
    /\ last.drv.rows > 1
    /\ last.res.ok

\* C10: fetch_optional on an Initialized facade, for a statement that runs
\* (it is valid and its table exists): zero rows give Ok(None), never an
\* error; one or more rows give Ok(Some(row)), the first row mapped into T
\* (T's fields being columns of the statement).
C10_FetchOptional ==
    (last.op = "fetch_optional" /\ Initialized(last.f) /\ last.drv.ok) =>
        /\ last.drv.rows = 0 => last.res = Ok(None)
        /\ (last.drv.rows >= 1 /\ last.shape \subseteq DOMAIN last.drv.first.v) =>
              last.res = Ok(Some(Mapped(last.drv.first.v, last.shape)))

C10_Witness ==
    /\ last.op = "fetch_optional"
    /\ Initialized(last.f)
    /\ last.drv.ok
    /\ last.drv.rows = 0
    /\ last.res = Ok(None)

\* The driver's failures on a statement: syntax, missing table, unknown
\* column, duplicate primary key, table already there.
StatementErrors ==
    {"syntax", "no_such_table", "no_such_column", "constraint_unique", "table_exists"}

\* C11: no poisoning: a query-surface call that fails on an Initialized facade
\* leaves the facade as it was, holding the same pool, still open, and a
\* SELECT 1 submitted next on that facade succeeds; this holds at every
\* failure, so after any number of them.
C11_NoPoisoning ==
    [][\A f \in Facades :
          (Initialized(f) /\ last'.f = f /\ last'.op \in QuerySurface /\ ~last'.res.ok) =>
              /\ facades'[f] = facades[f]
              /\ ~pools'[facades[f].connection.v].closed
              /\ (execute_query(facades[f], [k |-> "select_1"]).res.ok)']_vars

C11_Witness ==
    /\ last.op = "execute_query"
    /\ Initialized(last.f)
    /\ last.submits = 1
    /\ last.drv.e = "constraint_unique"
    /\ ~last.res.ok

\* C12: on an Initialized facade, whenever the driver reports a failure for
\* the statement of a query-surface call, the call returns an error of the
\* Connection kind carrying the driver's error: never success, never
\* PathResolution, DirectoryCreation or NotInitialized.
C12_DriverFailureIsConnection ==
    (last.op \in QuerySurface /\ Initialized(last.f) /\ last.submits = 1 /\ ~last.drv.ok) =>
        /\ last.drv.e \in StatementErrors
        /\ last.res = Err("Connection", last.drv.e)

C12_Witness ==
    /\ last.op = "execute_query"
    /\ Initialized(last.f)
    /\ last.drv.e = "syntax"
    /\ last.res = Err("Connection", "syntax")

\* The row an INSERT statement q has put into a table now holding rows.
InsertedRow(q, rows) ==
    [id |-> IF q.k = "insert" THEN q.id ELSE MaxId(rows), v |-> q.v]

\* C13: round trip: on an Initialized facade, when a successful INSERT is
\* followed on the same facade by fetch_one / fetch_all (into a T of the
\* table's columns) selecting the inserted row by its key, the fetch returns
\* exactly that one row, equal in every field to what was inserted; on a
\* freshly created table (the insert was its first) a fetch of the whole table
\* returns that one row too.
C13_RoundTrip ==
    [][(/\ last.op = "execute_query"
        /\ last.q.k \in {"insert", "insert_auto"}
        /\ last.res.ok
        /\ Initialized(last.f)
        /\ last'.f = last.f
        /\ last'.op \in {"fetch_one", "fetch_all"}
        /\ last'.shape = {"id", "v"}) =>
          LET rows == DbOf(facades[last.f].connection.v).rows
              row == InsertedRow(last.q, rows)
              exactly == IF last'.op = "fetch_one"
                         THEN last'.res = Ok(row)
                         ELSE last'.res = Ok(<<row>>)
          IN /\ row \in rows
             /\ last'.q = [k |-> "select_where", id |-> row.id] => exactly
             /\ (last'.q = [k |-> "select_all"] /\ Cardinality(rows) = 1) => exactly]_vars

C13_Witness ==
    /\ last.op = "fetch_all"
    /\ Initialized(last.f)
    /\ last.q = [k |-> "select_where", id |-> 2]
    /\ last.res = Ok(<<[id |-> 2, v |-> "y"]>>)

\* C14: execute_query of CREATE TABLE IF NOT EXISTS on an Initialized facade
\* succeeds and the table exists afterwards; it never changes the rows, and
\* executed when the table is already there (as on the second execution) it
\* changes nothing at all.
C14_CreateIfNotExistsIdempotent ==
    [][\A f \in Facades :
          (/\ last'.f = f
           /\ last'.op = "execute_query"
           /\ last'.q = [k |-> "create_table_if_not_exists"]
           /\ Initialized(f)) =>
             LET pid == facades[f].connection.v IN
             /\ last'.res = Ok([rows_affected |-> 0])
             /\ DbOf(pid)'.tbl
             /\ DbOf(pid)'.rows = DbOf(pid).rows
             /\ DbOf(pid).tbl => (store' = store /\ pools' = pools)]_vars

C14_Witness ==
    /\ last.op = "execute_query"
    /\ last.q = [k |-> "create_table_if_not_exists"]
    /\ Initialized(last.f)
    /\ last.res.ok
    /\ DbOf(facades[last.f].connection.v).rows # {}

\* C15: persistence across instances: the table and the rows of a database
\* file survive every step of every facade (close and a later open included),
\* and fetch_all of the table through any facade opened on the file returns
\* every row the file holds; so a row inserted through one facade on the
\* default path is returned through a second facade opened on that path after
\* the first was closed.
C15_Persistence ==
    [][/\ \A p \in DbFiles :
             /\ store[p].rows \subseteq store'[p].rows
             /\ store[p].tbl => store'[p].tbl
       /\ \A f \in Facades :
             (/\ last'.f = f
              /\ last'.op = "fetch_all"
              /\ last'.q = [k |-> "select_all"]
              /\ last'.shape = {"id", "v"}
              /\ Initialized(f)
              /\ ~pools[facades[f].connection.v].url.memory
              /\ store[pools[facades[f].connection.v].url.file].tbl) =>
                last'.res = Ok(Scan(store[pools[facades[f].connection.v].url.file].rows))]_vars

C15_Witness ==
    /\ facades[1].st = "consumed"
    /\ last.f = 2
    /\ last.op = "fetch_all"
    /\ Initialized(2)
    /\ pools[facades[2].connection.v].url.file \in DefaultPaths
    /\ last.res = Ok(<<[id |-> 1, v |-> "x"]>>)

\* C16: for every pool, at every moment, at most ten connections are borrowed
\* by running operations, however many operations have been submitted.
C16_AtMostTenBorrowed ==
    \A pid \in PoolIds : Borrowed(pid) <= 10

C16_Witness ==
    \E pid \in PoolIds :
        /\ Borrowed(pid) = 10
        /\ OpsIn(pid, "waiting") # {}

\* No operation of pool pid is queued or running.
Drained(pid) ==
    pid \in PoolIds => OpsIn(pid, "waiting") \cup OpsIn(pid, "running") = {}

\* C17 as claimed: an operation that is queued waits for as long as no
\* connection is returned to it: while the pool is open it stays queued until
\* it runs, and is never failed.
C17_AsClaimed ==
    [][\A pid \in PoolIds : \A i \in OpsIn(pid, "waiting") :
          ~pools'[pid].closed => pools'[pid].ops[i] \in {"waiting", "running"}]_vars

\* C17, amended: an operation submitted to an open pool while all ten
\* connections are borrowed is queued, not rejected; a queued operation gets
\* to run only when fewer than ten connections are borrowed, and otherwise
\* leaves the queue only by failing (the pool's acquire timeout, which the
\* code leaves at its default, or the pool's close); and, running operations
\* returning their connections, the pool is drained again and again, so every
\* operation submitted completes, with its result or with that failure.
C17_QueuedThenRunOrTimedOut ==
    /\ [][\A pid \in PoolIds :
             /\ (Len(pools'[pid].ops) = Len(pools[pid].ops) + 1
                   /\ ~pools[pid].closed /\ Borrowed(pid) = 10) =>
                   pools'[pid].ops[Len(pools'[pid].ops)] = "waiting"
             /\ \A i \in OpsIn(pid, "waiting") :
                   /\ pools'[pid].ops[i] \in {"waiting", "running", "failed"}
                   /\ pools'[pid].ops[i] = "running" =>
                         (Borrowed(pid) < 10 /\ ~pools[pid].closed)]_vars
    /\ \A pid \in 1..MaxPools : []<>Drained(pid)

C17_Witness ==
    \E pid \in PoolIds :
        /\ ~pools[pid].closed
        /\ Len(pools[pid].ops) = MaxOps
        /\ pools[pid].ops[MaxOps] = "failed"
        /\ Borrowed(pid) = 10

\* C18 as claimed: when initialize opens a pool for a facade whose held path
\* is ":memory:", the pool is an in-memory engine instance and no file is
\* created; for every other held path the pool is on the file at that path,
\* opened in read-write-create mode, so that the file exists afterwards.
C18_AsClaimed ==
    [][\A f \in Facades :
          (/\ Len(pools') = Len(pools) + 1
           /\ facades'[f].st = "live"
           /\ facades'[f].connection = Some(Len(pools'))
           /\ facades[f].connection # Some(Len(pools'))) =>
             LET held == facades'[f].database_path
                 url == pools'[Len(pools')].url
             IN IF held = MemorySentinel
                THEN url.memory /\ store' = store
                ELSE /\ ~url.memory
                     /\ url.mode = "rwc"
                     /\ url.file = held.comps
                     /\ store'[url.file].file]_vars

\* The failing case: a facade opened by Database::new on a file that is not the
\* file at the path it holds.
C18_Witness ==
    \E f \in Facades :
        /\ Initialized(f)
        /\ facades[f].database_path = to_string_lossy(BackslashDb)
        /\ pools[facades[f].connection.v].url.file = AliasDb

\* C19 as claimed: Database::new_with_path opens nothing (no pool, no file, no
\* directory) and returns an Unopened facade, which stays as it is until
\* initialize (or close) is called on it; after a successful initialize
\* connection() is Ok and the query surface answers as it does on a facade
\* holding the default path; and initialize on a path whose parent directory
\* does not exist returns an error.
C19_AsClaimed ==
    [][\A f \in Facades :
          /\ (last'.f = f /\ last'.op = "new_with_path") =>
                /\ pools' = pools /\ store' = store /\ fs' = fs
                /\ facades'[f].st = "live" /\ ~facades'[f].connection.some
          /\ (Unopened(f) /\ ~(last'.f = f /\ last'.op \in {"initialize", "close"})) =>
                facades'[f] = facades[f]
          /\ (last'.f = f /\ last'.op = "initialize" /\ last'.res.ok) =>
                /\ (connection(facades[f]).ok)'
                /\ \A q \in Probes :
                      (execute_query(facades[f], q).res =
                       execute_query([facades[f] EXCEPT !.database_path =
                                         to_string_lossy(join(join(HomeDir, ".burncloud"),
                                                              "data.db"))], q).res)'
                /\ (execute_query(facades[f], [k |-> "select_1"]).res.ok)'
          /\ (/\ last'.f = f /\ last'.op = "initialize"
              /\ facades[f].st = "live"
              /\ facades[f].database_path # MemorySentinel
              /\ ~DirOk(parent(facades[f].database_path.comps).v)) =>
                ~last'.res.ok]_vars

\* The failing case: initialize has returned Ok on a facade whose path has a
\* parent directory that does not exist.
C19_Witness ==
    /\ last.op = "initialize"
    /\ last.res.ok
    /\ Initialized(last.f)
    /\ facades[last.f].database_path = to_string_lossy(BackslashDb)
    /\ ~DirOk(parent(BackslashDb).v)

\* C20: cloning a handle opens no pool: the clone is one more handle on the
\* pool the facade holds, whose operations enter the same queue and run beside
\* the others'. Once the facade's close has closed the pool it stays closed
\* for every handle, and every operation submitted to it, through whatever
\* clone is left, fails: none starts running after the close.
C20_ClonesShareOnePool ==
    [][\A pid \in PoolIds :
          /\ (~pools[pid].cloned /\ pools'[pid].cloned) =>
                /\ Len(pools') = Len(pools)
                /\ pools' = [pools EXCEPT ![pid].cloned = TRUE]
                /\ \E f \in Facades : Initialized(f) /\ facades[f].connection = Some(pid)
          /\ pools[pid].closed =>
                /\ pools'[pid].closed
                /\ Len(pools'[pid].ops) = Len(pools[pid].ops) + 1 =>
                      pools'[pid].ops[Len(pools'[pid].ops)] = "failed"
                /\ \A i \in 1..Len(pools'[pid].ops) :
                      pools'[pid].ops[i] = "running" =>
                          (i <= Len(pools[pid].ops) /\ pools[pid].ops[i] = "running")]_vars

\* Two operations running at once on a cloned pool, the facade closed and
\* consumed, and an operation submitted through the clone after that, failed.
C20_Witness ==
    \E pid \in PoolIds :
        /\ pools[pid].cloned
        /\ pools[pid].closed
        /\ \A f \in Facades : facades[f].st # "live"
        /\ pools[pid].ops = <<"running", "running", "failed">>

\* The step of Database::new a trace entry records.
StepOf(entry) == IF entry \in {"exists:true", "exists:false"} THEN "exists" ELSE entry

AtMostOnce(trace) ==
    \A i, j \in 1..Len(trace) : StepOf(trace[i]) = StepOf(trace[j]) => i = j

\* C21 as claimed: every operation of the query surface, create_tables among
\* them, called on an Initialized facade has submitted a statement to the
\* driver exactly once.
C21_AsClaimed ==
    (last.op \in QuerySurface /\ Initialized(last.f)) => last.submits = 1

\* C21, amended: every operation of the query surface that takes a statement
\* (all but create_tables), called on an Initialized facade, has submitted it
\* to the driver exactly once, and when the driver failed the call returned
\* that failure with no second submission; create_tables takes no statement
\* and submits none; and a call of Database::new, running or returned, has
\* taken each of its steps at most once.
C21_NoRetry ==
    /\ (last.op \in QuerySurface \ {"create_tables"} /\ Initialized(last.f)) =>
          /\ last.submits = 1
          /\ ~last.drv.ok => (~last.res.ok /\ last.res = Err("Connection", last.drv.e))
    /\ (last.op = "create_tables" /\ Initialized(last.f)) =>
          (last.submits = 0 /\ last.res.ok)
    /\ AtMostOnce(last.trace)
    /\ \A f \in Facades : AtMostOnce(facades[f].trace)

C21_Witness ==
    /\ last.op = "fetch_one"
    /\ Initialized(last.f)
    /\ ~last.drv.ok
    /\ last.submits = 1
    /\ ~last.res.ok

\* C22: an initialize that succeeds on an Initialized facade has opened one new
\* pool and put its handle in the place of the one the facade held: the facade
\* holds the new handle only, the new pool is open, and every earlier pool,
\* the one the facade held among them, is as it was (close was not called on
\* it).
C22_ReinitializeReplaces ==
    [][\A f \in Facades :
          (Initialized(f) /\ last'.f = f /\ last'.op = "initialize" /\ last'.res.ok) =>
              /\ Len(pools') = Len(pools) + 1
              /\ facades'[f].st = "live"
              /\ facades'[f].connection = Some(Len(pools'))
              /\ facades'[f].connection # facades[f].connection
              /\ ~pools'[Len(pools')].closed
              /\ \A pid \in PoolIds : pools'[pid] = pools[pid]]_vars

\* A facade initialized twice: it holds the second pool, and the first is
\* still open.
C22_Witness ==
    /\ last.op = "initialize"
    /\ last.res.ok
    /\ Initialized(last.f)
    /\ facades[last.f].connection = Some(2)
    /\ \A f \in Facades : facades[f].connection # Some(1)
    /\ ~pools[1].closed

\* C23: with several tasks in Database::new at once on the same default path,
\* every call returns, Ok or an error of the facade's kinds (no panic, and no
\* call stays in its steps for ever); a task that found the directory missing
\* and reaches create_dir_all after another task has created it goes on (a
\* create_dir_all fails only where the directory is missing and cannot be
\* created); and every facade returned Ok, its pool open, executes SELECT 1
\* successfully, whatever the other facades on the file are doing.
C23_ConcurrentNew ==
    /\ [](last.op \in NewEntries =>
             (last.res.ok \/ last.res.kind \in {"PathResolution", "DirectoryCreation",
                                                "Connection"}))
    /\ [][\A f \in Facades :
             (facades[f].st = "new" /\ facades[f].pc = "create_dir_all"
                /\ facades'[f] # facades[f]) =>
                 LET dir == parent(facades[f].default_path).v IN
                 /\ exists(dir) => (facades'[f].st = "new" /\ facades'[f].pc = "initialize")
                 /\ facades'[f].st # "new" => (~exists(dir) /\ ~fsWritable)]_vars
    /\ [](\A f \in Facades :
             (Initialized(f) /\ ~pools[facades[f].connection.v].closed) =>
                 execute_query(facades[f], [k |-> "select_1"]).res.ok)
    /\ \A f \in Facades : (facades[f].st = "new") ~> (facades[f].st # "new")

\* The race: task 2 found the directory missing and stands before
\* create_dir_all, task 1 has created it since, got its facade, and has run a
\* successful statement on it.
C23_Witness ==
    /\ Initialized(1)
    /\ last.f = 1 /\ last.op = "execute_query" /\ last.res.ok
    /\ facades[2].st = "new"
    /\ facades[2].pc = "create_dir_all"
    /\ exists(parent(facades[2].default_path).v)

\* C24: an initialize that fails leaves the facade as it was: the held path
\* and the connection are what they were before the call (unset on an Unopened
\* facade, the same handle, its pool untouched, on an Initialized one), and no
\* pool or file has changed; and every operation of the query surface,
\* whatever it returns, leaves the held path and the handle as they were.
C24_FailingInitializeFrame ==
    [][\A f \in Facades :
          /\ (facades[f].st = "live" /\ last'.f = f /\ last'.op = "initialize"
                /\ ~last'.res.ok) =>
                /\ facades'[f] = facades[f]
                /\ pools' = pools
                /\ store' = store
          /\ (facades[f].st = "live" /\ last'.f = f /\ last'.op \in QuerySurface) =>
                /\ facades'[f].st = "live"
                /\ facades'[f].database_path = facades[f].database_path
                /\ facades'[f].connection = facades[f].connection]_vars

\* An initialize has failed on an Initialized facade, which still holds its
\* open pool.
C24_Witness ==
    /\ last.op = "initialize"
    /\ ~last.res.ok
    /\ Initialized(last.f)
    /\ facades[last.f].connection = Some(1)
    /\ ~pools[1].closed
    /\ Len(pools) = 1

====
